---- MODULE Spec2Model ----
(***************************************************************************)
(* MIPS stack walker (minidump-processor/src/stackwalker/mips.rs).         *)
(*                                                                         *)
(* One unwind step, get_caller_frame, is modelled stage by stage (CFI,     *)
(* scan, validation), and the outer walk feeds every emitted frame back    *)
(* as the next callee.  Registers are unsigned integers of a fixed width:  *)
(* the raw MIPS register (u64 in the code) holds values below WideMod and  *)
(* the Mips32Context register (u32 in the code) values below NarrowMod.    *)
(* The widths are scaled down (TLC integers are 32 bit wide) but kept      *)
(* wide enough for the program constants 4096 and 1024 to fit below        *)
(* NarrowMod, so truncation and checked_add overflow behave as in the      *)
(* code.                                                                   *)
(***************************************************************************)
EXTENDS Integers, Sequences, FiniteSets, TLC

VARIABLES
    callee,        \* the callee StackFrame of the current unwind step
    grand_callee,  \* Option<StackFrame>: the frame below the callee
    stack_memory,  \* Option<MinidumpMemory>: the thread's stack image
    modules,       \* MinidumpModuleList: sequence of [base, size]
    syms,          \* symbol provider: the addresses it has a function for
    pc,            \* position inside get_caller_frame / the outer walk
    frame,         \* Option<StackFrame>: the local `frame` of get_caller_frame
    result,        \* Option<StackFrame>: what get_caller_frame returned
    obs            \* what this invocation did (unwinders tried, reads, ...)

vars == <<callee, grand_callee, stack_memory, modules, syms, pc, frame, result, obs>>

(***************************************************************************)
(* Bounds of the model.                                                    *)
(***************************************************************************)
\* number of bits of the narrow (u32) register in the model
NarrowBits == 13
\* bits the wide (u64) register has on top of the narrow one
ExtraBits == 2

RECURSIVE Pow2(_)
Pow2(n) == IF n = 0 THEN 1 ELSE 2 * Pow2(n - 1)

NarrowMod == Pow2(NarrowBits)
WideMod == Pow2(NarrowBits + ExtraBits)
NarrowMax == NarrowMod - 1
WideMax == WideMod - 1

(***************************************************************************)
(* Option values.                                                          *)
(***************************************************************************)
None == <<>>
Some(x) == <<x>>
IsSome(o) == o # None
Unwrap(o) == o[1]

(***************************************************************************)
(* Program constants.                                                      *)
(***************************************************************************)
STACK_POINTER == "sp"
PROGRAM_COUNTER == "pc"
CALLEE_SAVED_REGS == <<"s0", "s1", "s2", "s3", "s4", "s5", "s6", "s7", "gp", "sp", "fp">>

MAX_STACK_SIZE32 == 1024
MIN_ARGS == 4
POINTER_WIDTH32 == 4
MAX_STACK_SIZE64 == 1024
POINTER_WIDTH64 == 8
\* instruction_seems_valid: `instruction < 0x1000`
MIN_INSTRUCTION == 4096
\* get_caller_frame: `get_instruction_pointer() < 4096`
NULLISH_LIMIT == 4096
\* get_caller_frame: `frame.instruction = ip - 8`
JAL_RETURN_OFFSET == 8

(***************************************************************************)
(* Register contexts.  A raw context is [flags64, pc, sp, fp]: the         *)
(* CONTEXT_MIPS64 flag, the two registers the walker reads and one of the  *)
(* registers it only carries along.  A validity                            *)
(* mask is [kind |-> "All"] or [kind |-> "Some", which |-> set of names].  *)
(***************************************************************************)
ValidAll == [kind |-> "All", which |-> {}]
ValidSome(s) == [kind |-> "Some", which |-> s]

\* u64 -> u32 (`as u32`)
AsU32(v) == v % NarrowMod

\* mutant: the width test inverted
IsMips32_Inverted(raw) == raw.flags64

\* TryFrom<MipsContext> for Mips32Context: Ok (narrow) iff the flag is clear
IsMips32(raw) == ~raw.flags64

\* MipsContext::get_register_always
RawRegister(raw, reg) ==
    IF reg = PROGRAM_COUNTER THEN raw.pc ELSE IF reg = "fp" THEN raw.fp ELSE raw.sp

\* Mips32Context::get_register_always: the raw register `as u32`
Mips32Register(raw, reg) == AsU32(RawRegister(raw, reg))

\* CpuContext::get_register_always of the context resolved by try_from
GetRegisterAlways(raw, reg) ==
    IF IsMips32(raw) THEN Mips32Register(raw, reg) ELSE RawRegister(raw, reg)

\* CpuContext::get_register(reg, valid): None unless the mask knows reg
RegisterIsValid(reg, valid) == valid.kind = "All" \/ reg \in valid.which

\* mutant: the sum wraps around the register width
CheckedAdd_Wrapping(a, b, max) == Some((a + b) % (max + 1))

\* u32::checked_add / u64::checked_add
CheckedAdd(a, b, max) == IF a + b > max THEN None ELSE Some(a + b)

(***************************************************************************)
(* Collaborators: stack memory, module list, symbol provider.              *)
(***************************************************************************)
\* A stack image is [base, size, fill, hot, hotval]: size bytes from base;
\* the word at address hot reads hotval, every other word reads fill.
\* MinidumpMemory::get_memory_at_address: fails unless addr .. addr+width-1
\* lies inside the image (checked arithmetic), else the word stored there.
get_memory_at_address(mem, addr, width) ==
    IF addr + width - 1 > WideMax \/ addr < mem.base
       \/ addr + width > mem.base + mem.size
    THEN None
    ELSE Some(IF addr = mem.hot THEN mem.hotval ELSE mem.fill)

\* MinidumpModuleList::module_at_address
module_at_address(mods, addr) ==
    IF \E k \in 1..Len(mods) : mods[k].base <= addr /\ addr < mods[k].base + mods[k].size
    THEN Some(CHOOSE k \in 1..Len(mods) :
                  mods[k].base <= addr /\ addr < mods[k].base + mods[k].size)
    ELSE None

\* super::instruction_seems_valid_by_symbols: the address lies in a module
\* and the symbol provider finds a function for it
instruction_seems_valid_by_symbols(instruction, mods, sy) ==
    IsSome(module_at_address(mods, instruction)) /\ instruction \in sy

\* mutant: no lower limit on the instruction address
instruction_seems_valid_NoFloor(instruction, mods, sy) ==
    instruction_seems_valid_by_symbols(instruction, mods, sy)

\* instruction_seems_valid
instruction_seems_valid(instruction, mods, sy) ==
    IF instruction < MIN_INSTRUCTION
    THEN FALSE
    ELSE instruction_seems_valid_by_symbols(instruction, mods, sy)

(***************************************************************************)
(* Stack frames: [instruction, raw, valid, trust].                         *)
(***************************************************************************)
\* MinidumpContext::get_instruction_pointer / get_stack_pointer
get_instruction_pointer(f) == f.raw.pc
get_stack_pointer(f) == f.raw.sp

\* StackFrame::from_context
from_context(raw, valid, trust) ==
    [instruction |-> raw.pc, raw |-> raw, valid |-> valid, trust |-> trust]

\* MipsContext::default() with pc and sp set: the context of a scanned frame
ScannedContext(caller_pc, caller_sp) ==
    [flags64 |-> FALSE, pc |-> caller_pc, sp |-> caller_sp, fp |-> 0]

(***************************************************************************)
(* Stack-scan unwinders.  A scan run is reported as [stop, i,              *)
(* address_of_pc, caller_pc, caller_sp, first, reads, checks]: why the     *)
(* loop ended and at which index, the last address read, word read and sp  *)
(* computed (-1 when there is none), the address of the first read, the    *)
(* number of get_memory_at_address calls and the number of                 *)
(* instruction_seems_valid calls.                                          *)
(***************************************************************************)
ScanRun(stop, i, a, w, s, first, reads, checks) ==
    [stop |-> stop, i |-> i, address_of_pc |-> a, caller_pc |-> w, caller_sp |-> s,
     first |-> first, reads |-> reads, checks |-> checks]
\* a run that ended before the loop
NoLoop(stop) == ScanRun(stop, 0, -1, -1, -1, -1, 0, 0)

\* mutant: a word that cannot be read is skipped
Scan32Body_SkipsUnreadable(i, last_sp, mem, mods, sy) ==
    LET address_of_pc == CheckedAdd(last_sp, i * POINTER_WIDTH32, NarrowMax) IN
    IF address_of_pc = None
    THEN ScanRun("add_overflow", i, -1, -1, -1, IF i > 0 THEN last_sp ELSE -1, i, i)
    ELSE LET a == Unwrap(address_of_pc)
             word == get_memory_at_address(mem, a, POINTER_WIDTH32)
         IN IF word = None THEN ScanRun("continue", i, a, -1, -1, last_sp, i + 1, i)
            ELSE LET caller_pc == AsU32(Unwrap(word)) IN
                 IF instruction_seems_valid(caller_pc, mods, sy)
                 THEN LET caller_sp == CheckedAdd(a, POINTER_WIDTH32, NarrowMax) IN
                      IF caller_sp = None
                      THEN ScanRun("sp_overflow", i, a, caller_pc, -1, last_sp, i + 1, i + 1)
                      ELSE ScanRun("accepted", i, a, caller_pc, Unwrap(caller_sp),
                                   last_sp, i + 1, i + 1)
                 ELSE ScanRun("continue", i, a, caller_pc, -1, last_sp, i + 1, i + 1)

\* one iteration of the loop of get_caller_by_scan32: "continue" when the
\* word is not accepted, else how the iteration leaves the function; the i
\* iterations before it each read and checked one word, the first at last_sp
Scan32Body(i, last_sp, mem, mods, sy) ==
    LET address_of_pc == CheckedAdd(last_sp, i * POINTER_WIDTH32, NarrowMax) IN
    IF address_of_pc = None
    THEN ScanRun("add_overflow", i, -1, -1, -1, IF i > 0 THEN last_sp ELSE -1, i, i)
    ELSE LET a == Unwrap(address_of_pc)
             word == get_memory_at_address(mem, a, POINTER_WIDTH32)
         IN IF word = None THEN ScanRun("unreadable", i, a, -1, -1, last_sp, i + 1, i)
            ELSE LET caller_pc == AsU32(Unwrap(word)) IN
                 IF instruction_seems_valid(caller_pc, mods, sy)
                 THEN LET caller_sp == CheckedAdd(a, POINTER_WIDTH32, NarrowMax) IN
                      IF caller_sp = None
                      THEN ScanRun("sp_overflow", i, a, caller_pc, -1, last_sp, i + 1, i + 1)
                      ELSE ScanRun("accepted", i, a, caller_pc, Unwrap(caller_sp),
                                   last_sp, i + 1, i + 1)
                 ELSE ScanRun("continue", i, a, caller_pc, -1, last_sp, i + 1, i + 1)

\* the `for i in 0..count` loop of get_caller_by_scan32: the outcome of the
\* first iteration, in loop order, that leaves the function; "exhausted"
\* when every iteration continues
Scan32Loop(count, last_sp, mem, mods, sy) ==
    IF \A i \in 0..(count - 1) : Scan32Body(i, last_sp, mem, mods, sy).stop = "continue"
    THEN ScanRun("exhausted", count, -1, -1, -1, last_sp, count, count)
    ELSE CHOOSE r \in {Scan32Body(k, last_sp, mem, mods, sy) :
                          k \in {CHOOSE i \in 0..(count - 1) :
                                    /\ Scan32Body(i, last_sp, mem, mods, sy).stop # "continue"
                                    /\ \A j \in 0..(i - 1) :
                                           Scan32Body(j, last_sp, mem, mods, sy).stop
                                               = "continue"}} : TRUE

\* mutant: the argument spill area is not skipped
Scan32Run_NoArgSkip(ctx, callee_frame, mem, mods, sy) ==
    IF ~RegisterIsValid(STACK_POINTER, callee_frame.valid)
    THEN NoLoop("no_sp")
    ELSE Scan32Loop(MAX_STACK_SIZE32 \div POINTER_WIDTH32,
                    Mips32Register(ctx, STACK_POINTER), mem, mods, sy)

\* mutant: the argument spill area is skipped whatever the callee's trust
Scan32Run_AlwaysArgSkip(ctx, callee_frame, mem, mods, sy) ==
    IF ~RegisterIsValid(STACK_POINTER, callee_frame.valid)
    THEN NoLoop("no_sp")
    ELSE LET last_sp == Mips32Register(ctx, STACK_POINTER)
             count == MAX_STACK_SIZE32 \div POINTER_WIDTH32
             moved == CheckedAdd(last_sp, MIN_ARGS * POINTER_WIDTH32, NarrowMax)
         IN IF moved = None THEN NoLoop("add_overflow")
            ELSE Scan32Loop(count - MIN_ARGS, Unwrap(moved), mem, mods, sy)

\* get_caller_by_scan32 up to the end of its loop
Scan32Run(ctx, callee_frame, mem, mods, sy) ==
    IF ~RegisterIsValid(STACK_POINTER, callee_frame.valid)
    THEN NoLoop("no_sp")
    ELSE LET last_sp == Mips32Register(ctx, STACK_POINTER)
             count == MAX_STACK_SIZE32 \div POINTER_WIDTH32
         IN IF callee_frame.trust # "Context"
            THEN LET moved == CheckedAdd(last_sp, MIN_ARGS * POINTER_WIDTH32, NarrowMax) IN
                 IF moved = None THEN NoLoop("add_overflow")
                 ELSE Scan32Loop(count - MIN_ARGS, Unwrap(moved), mem, mods, sy)
            ELSE Scan32Loop(count, last_sp, mem, mods, sy)

\* mutant: the caller's sp is the address of the accepted word itself
ScanFrame_SpAtWord(run) ==
    IF run.stop = "accepted"
    THEN Some(from_context(ScannedContext(run.caller_pc, run.address_of_pc),
                           ValidSome({PROGRAM_COUNTER, STACK_POINTER}), "Scan"))
    ELSE None

\* mutant: the scanned context is marked valid as a whole
ScanFrame_AllValid(run) ==
    IF run.stop = "accepted"
    THEN Some(from_context(ScannedContext(run.caller_pc, run.caller_sp), ValidAll, "Scan"))
    ELSE None

\* the frame a scan run returns
ScanFrame(run) ==
    IF run.stop = "accepted"
    THEN Some(from_context(ScannedContext(run.caller_pc, run.caller_sp),
                           ValidSome({PROGRAM_COUNTER, STACK_POINTER}), "Scan"))
    ELSE None

get_caller_by_scan32(ctx, callee_frame, mem, mods, sy) ==
    ScanFrame(Scan32Run(ctx, callee_frame, mem, mods, sy))

\* one iteration of the loop of get_caller_by_scan64: "continue" when the
\* word is not accepted, else how the iteration leaves the function; the i
\* iterations before it each read and checked one word, the first at last_sp
Scan64Body(i, last_sp, mem, mods, sy) ==
    LET address_of_pc == CheckedAdd(last_sp, i * POINTER_WIDTH64, WideMax) IN
    IF address_of_pc = None
    THEN ScanRun("add_overflow", i, -1, -1, -1, IF i > 0 THEN last_sp ELSE -1, i, i)
    ELSE LET a == Unwrap(address_of_pc)
             word == get_memory_at_address(mem, a, POINTER_WIDTH64)
         IN IF word = None THEN ScanRun("unreadable", i, a, -1, -1, last_sp, i + 1, i)
            ELSE LET caller_pc == Unwrap(word) IN
                 IF instruction_seems_valid(caller_pc, mods, sy)
                 THEN LET caller_sp == CheckedAdd(a, POINTER_WIDTH64, WideMax) IN
                      IF caller_sp = None
                      THEN ScanRun("sp_overflow", i, a, caller_pc, -1, last_sp, i + 1, i + 1)
                      ELSE ScanRun("accepted", i, a, caller_pc, Unwrap(caller_sp),
                                   last_sp, i + 1, i + 1)
                 ELSE ScanRun("continue", i, a, caller_pc, -1, last_sp, i + 1, i + 1)

\* mutant: the highest acceptable word of the range is taken
Scan64Loop_Highest(count, last_sp, mem, mods, sy) ==
    IF \A i \in 0..(count - 1) : Scan64Body(i, last_sp, mem, mods, sy).stop # "accepted"
    THEN ScanRun("exhausted", count, -1, -1, -1, last_sp, count, count)
    ELSE CHOOSE r \in {Scan64Body(i, last_sp, mem, mods, sy) : i \in 0..(count - 1)} :
             /\ r.stop = "accepted"
             /\ \A j \in (r.i + 1)..(count - 1) :
                    Scan64Body(j, last_sp, mem, mods, sy).stop # "accepted"

\* the `for i in 0..count` loop of get_caller_by_scan64: the outcome of the
\* first iteration, in loop order, that leaves the function; "exhausted"
\* when every iteration continues
Scan64Loop(count, last_sp, mem, mods, sy) ==
    IF \A i \in 0..(count - 1) : Scan64Body(i, last_sp, mem, mods, sy).stop = "continue"
    THEN ScanRun("exhausted", count, -1, -1, -1, last_sp, count, count)
    ELSE CHOOSE r \in {Scan64Body(k, last_sp, mem, mods, sy) :
                          k \in {CHOOSE i \in 0..(count - 1) :
                                    /\ Scan64Body(i, last_sp, mem, mods, sy).stop # "continue"
                                    /\ \A j \in 0..(i - 1) :
                                           Scan64Body(j, last_sp, mem, mods, sy).stop
                                               = "continue"}} : TRUE

\* mutant: the stack pointer is read without looking at the validity mask
Scan64Run_IgnoresValidity(ctx, callee_frame, mem, mods, sy) ==
    Scan64Loop(MAX_STACK_SIZE64 \div POINTER_WIDTH64,
               RawRegister(ctx, STACK_POINTER), mem, mods, sy)

\* mutant: the 64-bit scan skips an argument spill area like the 32-bit one
Scan64Run_ArgSkip(ctx, callee_frame, mem, mods, sy) ==
    IF ~RegisterIsValid(STACK_POINTER, callee_frame.valid)
    THEN NoLoop("no_sp")
    ELSE LET last_sp == RawRegister(ctx, STACK_POINTER)
             count == MAX_STACK_SIZE64 \div POINTER_WIDTH64
         IN IF callee_frame.trust # "Context"
            THEN LET moved == CheckedAdd(last_sp, MIN_ARGS * POINTER_WIDTH64, WideMax) IN
                 IF moved = None THEN NoLoop("add_overflow")
                 ELSE Scan64Loop(count - MIN_ARGS, Unwrap(moved), mem, mods, sy)
            ELSE Scan64Loop(count, last_sp, mem, mods, sy)

\* get_caller_by_scan64 up to the end of its loop
Scan64Run(ctx, callee_frame, mem, mods, sy) ==
    IF ~RegisterIsValid(STACK_POINTER, callee_frame.valid)
    THEN NoLoop("no_sp")
    ELSE Scan64Loop(MAX_STACK_SIZE64 \div POINTER_WIDTH64,
                    RawRegister(ctx, STACK_POINTER), mem, mods, sy)

get_caller_by_scan64(ctx, callee_frame, mem, mods, sy) ==
    ScanFrame(Scan64Run(ctx, callee_frame, mem, mods, sy))

(***************************************************************************)
(* Call-frame-info unwinder.  `answer` is what the symbol provider's       *)
(* walk_frame does for this module and instruction: None when it cannot    *)
(* evaluate CFI there, else Some([pc, sp]), the caller registers it sets    *)
(* (values of the context's register type).  A run is reported as          *)
(* [stop, frame].                                                          *)
(***************************************************************************)
RECURSIVE SeqToSet(_)
SeqToSet(q) == IF q = <<>> THEN {} ELSE {Head(q)} \cup SeqToSet(Tail(q))

callee_forwarded_regs(valid) ==
    IF valid.kind = "All"
    THEN SeqToSet(CALLEE_SAVED_REGS)
    ELSE {reg \in SeqToSet(CALLEE_SAVED_REGS) : reg \in valid.which}

\* CfiStackWalker after a successful walk_frame: the clone of the callee
\* context with pc and sp set, both marked valid
CfiCallerContext(ctx, answer) ==
    [ctx EXCEPT !.pc = answer.pc, !.sp = answer.sp]
CfiCallerValidity(valid) ==
    callee_forwarded_regs(valid) \cup {PROGRAM_COUNTER, STACK_POINTER}

\* mutant: the CFI unwinder rejects a near-null pc itself
CfiRun_Validating(ctx, callee_frame, grand, mods, answer) ==
    IF ~RegisterIsValid(STACK_POINTER, callee_frame.valid)
    THEN [stop |-> "no_sp", frame |-> None]
    ELSE IF module_at_address(mods, callee_frame.instruction) = None
    THEN [stop |-> "no_module", frame |-> None]
    ELSE IF answer = None \/ Unwrap(answer).pc < NULLISH_LIMIT
    THEN [stop |-> "cfi_failed", frame |-> None]
    ELSE [stop |-> "ok",
          frame |-> Some(from_context(CfiCallerContext(ctx, Unwrap(answer)),
                                      ValidSome(CfiCallerValidity(callee_frame.valid)),
                                      "CallFrameInfo"))]

CfiRun(ctx, callee_frame, grand, mods, answer) ==
    IF ~RegisterIsValid(STACK_POINTER, callee_frame.valid)
    THEN [stop |-> "no_sp", frame |-> None]
    ELSE IF module_at_address(mods, callee_frame.instruction) = None
    THEN [stop |-> "no_module", frame |-> None]
    ELSE IF answer = None
    THEN [stop |-> "cfi_failed", frame |-> None]
    ELSE [stop |-> "ok",
          frame |-> Some(from_context(CfiCallerContext(ctx, Unwrap(answer)),
                                      ValidSome(CfiCallerValidity(callee_frame.valid)),
                                      "CallFrameInfo"))]

get_caller_by_cfi(ctx, callee_frame, grand, mods, answer) ==
    CfiRun(ctx, callee_frame, grand, mods, answer).frame

(***************************************************************************)
(* Frame validator: the tail of get_caller_frame, applied to the frame an  *)
(* unwinder produced; `self` is the callee's raw context.                  *)
(***************************************************************************)
\* mutant: the leaf exception does not require an unchanged stack pointer
Validate_LeafAnyLower(self, callee_frame, f) ==
    IF get_instruction_pointer(f) < NULLISH_LIMIT THEN None
    ELSE LET sp == get_stack_pointer(f)
             last_sp == RawRegister(self, STACK_POINTER)
             is_leaf == callee_frame.trust = "Context"
         IN IF sp <= last_sp /\ ~is_leaf THEN None
            ELSE Some([f EXCEPT !.instruction = get_instruction_pointer(f) - JAL_RETURN_OFFSET])

\* mutant: the leaf exception does not look at the callee's trust
Validate_LeafAnywhere(self, callee_frame, f) ==
    IF get_instruction_pointer(f) < NULLISH_LIMIT THEN None
    ELSE LET sp == get_stack_pointer(f)
             last_sp == RawRegister(self, STACK_POINTER)
             is_leaf == sp = last_sp
         IN IF sp <= last_sp /\ ~is_leaf THEN None
            ELSE Some([f EXCEPT !.instruction = get_instruction_pointer(f) - JAL_RETURN_OFFSET])

\* mutant: the stack pointer is not compared with the callee's
Validate_NoProgress(self, callee_frame, f) ==
    IF get_instruction_pointer(f) < NULLISH_LIMIT THEN None
    ELSE LET sp == get_stack_pointer(f)
             last_sp == RawRegister(self, STACK_POINTER)
             is_leaf == callee_frame.trust = "Context" /\ sp = last_sp
         IN IF FALSE THEN None
            ELSE Some([f EXCEPT !.instruction = get_instruction_pointer(f) - JAL_RETURN_OFFSET])

\* mutant: no near-null check of the instruction pointer
Validate_NoNullish(self, callee_frame, f) ==
    LET sp == get_stack_pointer(f)
             last_sp == RawRegister(self, STACK_POINTER)
             is_leaf == callee_frame.trust = "Context" /\ sp = last_sp
         IN IF sp <= last_sp /\ ~is_leaf THEN None
            ELSE Some([f EXCEPT !.instruction = get_instruction_pointer(f) - JAL_RETURN_OFFSET])

\* mutant: the reported instruction is the return address itself
Validate_NoJalOffset(self, callee_frame, f) ==
    IF get_instruction_pointer(f) < NULLISH_LIMIT THEN None
    ELSE LET sp == get_stack_pointer(f)
             last_sp == RawRegister(self, STACK_POINTER)
             is_leaf == callee_frame.trust = "Context" /\ sp = last_sp
         IN IF sp <= last_sp /\ ~is_leaf THEN None
            ELSE Some([f EXCEPT !.instruction = get_instruction_pointer(f)])

Validate(self, callee_frame, f) ==
    IF get_instruction_pointer(f) < NULLISH_LIMIT THEN None
    ELSE LET sp == get_stack_pointer(f)
             last_sp == RawRegister(self, STACK_POINTER)
             is_leaf == callee_frame.trust = "Context" /\ sp = last_sp
         IN IF sp <= last_sp /\ ~is_leaf THEN None
            ELSE Some([f EXCEPT !.instruction = get_instruction_pointer(f) - JAL_RETURN_OFFSET])

(***************************************************************************)
(* Inputs of the walk.                                                     *)
(***************************************************************************)
\* the code module: it covers addresses on both sides of 4096
CodeModule == [base |-> 2048, size |-> 4096]
\* word values found on the stack
\* inside the module, below 4096
RetLow == CodeModule.base + 952
\* inside the module, a function of every provider
RetOk == MIN_INSTRUCTION + 104
\* inside the module, a function of one provider only
RetBad == MIN_INSTRUCTION + 904
\* lowest address of the low stack image, above the module
StackBase == CodeModule.base + CodeModule.size + 256

ModuleLists == {<<>>, <<CodeModule>>}
SymbolProviders == {{RetLow, RetOk, RetBad, 4296}, {RetLow, RetOk}}

Image(base, size, fill, hot, hotval) ==
    [base |-> base, size |-> size, fill |-> fill, hot |-> hot, hotval |-> hotval]

StackImages ==
    \* a short and a long image of implausible words around one return address
    { Image(StackBase, size, fill, StackBase + off, hotval) :
        size \in {24, 1100}, fill \in {0, RetLow},
        off \in {16, 20, 1020, 1024}, hotval \in {RetOk, RetBad} }
    \* an image where every word but the first looks like a return address
    \cup { Image(StackBase, 48, RetOk, StackBase, RetBad) }
    \* images ending at the top of the narrow and of the wide address space
    \cup { Image(top - 16, 16, fill, top - 16, 0) :
             top \in {NarrowMod, WideMod}, fill \in {0, RetOk} }

InitialSps ==
    {StackBase - 4, StackBase, NarrowMod - 8, NarrowMod - 4, NarrowMod + StackBase,
     WideMod - 8}

InitialContexts ==
    { [flags64 |-> f, pc |-> p, sp |-> s, fp |-> StackBase + 64] :
        f \in BOOLEAN, p \in {100, 4300}, s \in InitialSps }

InitialValidities ==
    {ValidAll, ValidSome({PROGRAM_COUNTER, STACK_POINTER}), ValidSome({PROGRAM_COUNTER})}

\* what walk_frame may answer to a context of this register width
CfiAnswers(ctx) ==
    {None} \cup { Some([pc |-> p, sp |-> s]) :
                    p \in {0, 4095, 4096},
                    s \in {v \in {StackBase, StackBase + 8, NarrowMod + StackBase} :
                             IsMips32(ctx) => v <= NarrowMax} }

NoScan == NoLoop("none")
NoObs == [tried |-> <<>>, cfi |-> "none", answer |-> None, scan |-> NoScan]

(***************************************************************************)
(* The walk.                                                               *)
(***************************************************************************)
InitFrom(contexts, validities, images, modlists, providers) ==
    /\ \E raw \in contexts, valid \in validities :
           callee = from_context(raw, valid, "Context")
    /\ grand_callee = None
    /\ stack_memory \in images
    /\ modules \in modlists
    /\ syms \in providers
    /\ pc = "idle"
    /\ frame = None
    /\ result = None
    /\ obs = NoObs

Init ==
    InitFrom(InitialContexts, InitialValidities,
             {None} \cup {Some(m) : m \in StackImages}, ModuleLists, SymbolProviders)

\* the walks over the image in which every word looks like a return address
\* and over one image of implausible words
WalkInit ==
    InitFrom({c \in InitialContexts : c.pc = 4300 /\ c.sp \in {StackBase, NarrowMod + StackBase}},
             {ValidAll},
             {Some(m) : m \in {i \in StackImages :
                                 i.size = 48 \/ (i.size = 24 /\ i.fill = 0 /\ i.hotval = RetOk)}},
             {<<CodeModule>>}, SymbolProviders)

\* get_caller_frame, lines 255-259: resolve the context width, require a stack
Invoke ==
    /\ pc = "idle"
    /\ pc' = IF stack_memory = None THEN "done" ELSE "cfi"
    /\ UNCHANGED <<callee, grand_callee, stack_memory, modules, syms, frame, result, obs>>

\* get_caller_frame, lines 260-271: the CFI attempt
TryCfi ==
    /\ pc = "cfi"
    /\ \E answer \in CfiAnswers(callee.raw) :
         LET run == CfiRun(callee.raw, callee, grand_callee, modules, answer) IN
         /\ frame' = get_caller_by_cfi(callee.raw, callee, grand_callee, modules, answer)
         /\ obs' = [obs EXCEPT !.tried = Append(@, "cfi"), !.cfi = run.stop,
                               !.answer = IF run.stop \in {"cfi_failed", "ok"}
                                          THEN Some(answer) ELSE None]
         /\ pc' = IF frame' = None THEN "scan" ELSE "validate"
    /\ UNCHANGED <<callee, grand_callee, stack_memory, modules, syms, result>>

\* get_caller_frame, lines 272-282: no CFI frame, the context is a Mips32Context
TryScan32 ==
    /\ pc = "scan"
    /\ IsMips32(callee.raw)
    /\ LET run == Scan32Run(callee.raw, callee, Unwrap(stack_memory), modules, syms) IN
         /\ frame' = get_caller_by_scan32(callee.raw, callee, Unwrap(stack_memory), modules, syms)
         /\ obs' = [obs EXCEPT !.tried = Append(@, "scan32"), !.scan = run]
         /\ pc' = IF frame' = None THEN "done" ELSE "validate"
    /\ UNCHANGED <<callee, grand_callee, stack_memory, modules, syms, result>>

\* get_caller_frame, lines 272-282: no CFI frame, the context is a MipsContext
TryScan64 ==
    /\ pc = "scan"
    /\ ~IsMips32(callee.raw)
    /\ LET run == Scan64Run(callee.raw, callee, Unwrap(stack_memory), modules, syms) IN
         /\ frame' = get_caller_by_scan64(callee.raw, callee, Unwrap(stack_memory), modules, syms)
         /\ obs' = [obs EXCEPT !.tried = Append(@, "scan64"), !.scan = run]
         /\ pc' = IF frame' = None THEN "done" ELSE "validate"
    /\ UNCHANGED <<callee, grand_callee, stack_memory, modules, syms, result>>

\* get_caller_frame, lines 284-320: validate the frame, emit it or terminate
ValidateFrame ==
    /\ pc = "validate"
    /\ result' = Validate(callee.raw, callee, Unwrap(frame))
    /\ pc' = IF result' = None THEN "done" ELSE "emitted"
    /\ UNCHANGED <<callee, grand_callee, stack_memory, modules, syms, frame, obs>>

\* the outer walk: the emitted frame is the next callee
WalkNext ==
    /\ pc = "emitted"
    /\ callee' = Unwrap(result)
    /\ grand_callee' = Some(callee)
    /\ pc' = "idle"
    /\ frame' = None
    /\ result' = None
    /\ obs' = NoObs
    /\ UNCHANGED <<stack_memory, modules, syms>>

Next == Invoke \/ TryCfi \/ TryScan32 \/ TryScan64 \/ ValidateFrame \/ WalkNext

Spec == Init /\ [][Next]_vars

\* the outer walk keeps calling get_caller_frame until it is told to stop
WalkSpec == WalkInit /\ [][Next]_vars /\ WF_vars(Next)

(***************************************************************************)
(* Properties.                                                             *)
(***************************************************************************)
Returned == pc \in {"done", "emitted"}
CfiYielded == obs.cfi = "ok"
ScanYielded == obs.scan.stop = "accepted"
ScanVariant == IF callee.raw.flags64 THEN "scan64" ELSE "scan32"
\* the unwinders were attempted in the order the claim C1 describes
AttemptOrder ==
    /\ Len(obs.tried) >= 1
    /\ obs.tried[1] = "cfi"
    /\ (Len(obs.tried) = 2) = ~CfiYielded
    /\ Len(obs.tried) = 2 => obs.tried[2] = ScanVariant
    /\ Len(obs.tried) <= 2
    /\ (~CfiYielded /\ ~ScanYielded) => (pc = "done" /\ result = None)

\* C1 as claimed: every invocation of get_caller_frame that has returned
\* attempted CFI first, attempted the scan of the context's width iff CFI
\* yielded nothing, and returned 'no caller' if both yielded nothing.
C1_EveryInvocation == Returned => AttemptOrder

\* C1 (amended): every invocation of get_caller_frame that is given a stack
\* memory image attempts CFI first, attempts the scan unwinder (32-bit iff the
\* MIPS64 flag is clear, else 64-bit) iff CFI yielded nothing, and returns 'no
\* caller' if both yield nothing; an invocation without a stack memory image
\* attempts neither unwinder and returns 'no caller'.
C1_AttemptOrder ==
    /\ (Returned /\ stack_memory # None) => AttemptOrder
    /\ (Returned /\ stack_memory = None) =>
           (obs.tried = <<>> /\ pc = "done" /\ result = None)
    /\ pc = "scan" => (obs.tried = <<"cfi">> /\ ~CfiYielded)
    /\ pc = "validate" => obs.tried \in {<<"cfi">>, <<"cfi", ScanVariant>>}

C1_Witness ==
    /\ pc = "done" /\ obs.tried = <<"cfi", "scan64">> /\ ~ScanYielded
    /\ obs.cfi = "cfi_failed" /\ result = None

\* the validator's stack pointer rule, for a frame f an unwinder produced
SpAccepted(f) ==
    \/ get_stack_pointer(f) > callee.raw.sp
    \/ get_stack_pointer(f) = callee.raw.sp /\ callee.trust = "Context"

\* C2: a frame produced by either unwinder is emitted only if the caller's
\* stack pointer is strictly greater than the callee's, or equal to it with a
\* callee of trust Context; an equal or lower one in any other case gives 'no
\* caller'.
C2_StackPointerRule ==
    /\ pc = "emitted" =>
           /\ IsSome(frame) /\ SpAccepted(Unwrap(frame))
           /\ get_stack_pointer(Unwrap(result)) = get_stack_pointer(Unwrap(frame))
    /\ (Returned /\ IsSome(frame) /\ ~SpAccepted(Unwrap(frame))) =>
           (pc = "done" /\ result = None)

C2_Witness ==
    /\ pc = "emitted" /\ callee.trust = "Context"
    /\ get_stack_pointer(Unwrap(result)) = callee.raw.sp

\* C3: in a walk that starts from a Context frame and feeds each emitted
\* frame back as the callee, no emitted frame has trust Context, the stack
\* pointer does not decrease at the first step and strictly increases at every
\* later step.
C3_LeafOnlyFirst ==
    /\ (callee.trust = "Context") = (grand_callee = None)
    /\ pc = "emitted" =>
           /\ Unwrap(result).trust # "Context"
           /\ grand_callee = None => get_stack_pointer(Unwrap(result)) >= callee.raw.sp
           /\ grand_callee # None => get_stack_pointer(Unwrap(result)) > callee.raw.sp

C3_Witness ==
    /\ pc = "emitted" /\ grand_callee # None
    /\ Unwrap(grand_callee).raw.sp = callee.raw.sp
    /\ Unwrap(result).trust = "CallFrameInfo"

\* C4: whatever the stack memory, the module list and the symbol provider's
\* answers, a walk that keeps calling get_caller_frame with the emitted frame
\* as the next callee eventually receives 'no caller'.
C4_WalkTerminates == <>(pc = "done")

C4_Witness ==
    /\ pc = "done" /\ grand_callee # None /\ Unwrap(grand_callee).trust # "Context"

\* C5: whenever the caller instruction pointer computed by CFI or by the scan
\* is below 4096, get_caller_frame returns 'no caller' and does not emit the
\* frame.
C5_NullishStops ==
    /\ (Returned /\ IsSome(frame) /\ get_instruction_pointer(Unwrap(frame)) < 4096) =>
           (pc = "done" /\ result = None)
    /\ pc = "emitted" => get_instruction_pointer(Unwrap(frame)) >= 4096

C5_Witness ==
    /\ pc = "done" /\ IsSome(frame) /\ get_instruction_pointer(Unwrap(frame)) = 0
    /\ get_stack_pointer(Unwrap(frame)) > callee.raw.sp

\* C6: when CFI evaluation succeeds the CFI unwinder returns a CallFrameInfo
\* frame with the provider's pc and sp unchecked, even when pc < 4096; the
\* validator then ends the step with 'no caller' and the scan unwinder is not
\* attempted in that step.
C6_CfiUnchecked ==
    (IsSome(obs.answer) /\ IsSome(Unwrap(obs.answer))) =>
        /\ CfiYielded /\ IsSome(frame)
        /\ Unwrap(frame).trust = "CallFrameInfo"
        /\ get_instruction_pointer(Unwrap(frame)) = Unwrap(Unwrap(obs.answer)).pc
        /\ get_stack_pointer(Unwrap(frame)) = Unwrap(Unwrap(obs.answer)).sp
        /\ obs.tried = <<"cfi">>
        /\ pc \in {"validate", "done", "emitted"}
        /\ (Returned /\ Unwrap(Unwrap(obs.answer)).pc < 4096) =>
               (pc = "done" /\ result = None)

C6_Witness ==
    /\ pc = "done" /\ CfiYielded /\ Unwrap(Unwrap(obs.answer)).pc = 4095
    /\ get_instruction_pointer(Unwrap(frame)) = 4095
    /\ get_stack_pointer(Unwrap(frame)) > callee.raw.sp

\* C7: for a callee whose validity mask does not mark sp valid, the CFI
\* unwinder and both scan unwinders return nothing without consulting the symbol
\* provider or reading stack memory, and get_caller_frame returns 'no caller'.
C7_NoStackPointer ==
    ~RegisterIsValid(STACK_POINTER, callee.valid) =>
        /\ pc \notin {"validate", "emitted"} /\ frame = None /\ result = None
        /\ obs.answer = None /\ obs.cfi \in {"none", "no_sp"}
        /\ obs.scan.reads = 0 /\ obs.scan.checks = 0
        /\ (pc = "cfi" =>
              \A answer \in CfiAnswers(callee.raw) :
                  /\ CfiRun(callee.raw, callee, grand_callee, modules, answer).stop = "no_sp"
                  /\ get_caller_by_cfi(callee.raw, callee, grand_callee, modules, answer) = None)
        /\ (pc = "scan" =>
              LET mem == Unwrap(stack_memory)
                  r32 == Scan32Run(callee.raw, callee, mem, modules, syms)
                  r64 == Scan64Run(callee.raw, callee, mem, modules, syms)
              IN /\ r32.stop = "no_sp" /\ r32.reads = 0 /\ r32.checks = 0
                 /\ r64.stop = "no_sp" /\ r64.reads = 0 /\ r64.checks = 0
                 /\ get_caller_by_scan32(callee.raw, callee, mem, modules, syms) = None
                 /\ get_caller_by_scan64(callee.raw, callee, mem, modules, syms) = None)

C7_Witness ==
    /\ pc = "done" /\ ~RegisterIsValid(STACK_POINTER, callee.valid)
    /\ obs.tried = <<"cfi", "scan32">>
    /\ IsSome(module_at_address(modules, callee.instruction))
    /\ IsSome(get_memory_at_address(Unwrap(stack_memory), callee.raw.sp, POINTER_WIDTH32))

Scan32Tried == obs.tried = <<"cfi", "scan32">>
Scan64Tried == obs.tried = <<"cfi", "scan64">>

\* C8: the 32-bit scan unwinder reads its first word at sp + 16 and examines
\* at most 252 words when the callee's trust is not Context; it reads its first
\* word at sp and examines at most 256 words when it is Context.
C8_Scan32Start ==
    Scan32Tried =>
        LET sp == AsU32(callee.raw.sp)
            skip == IF callee.trust # "Context" THEN 16 ELSE 0
            budget == IF callee.trust # "Context" THEN 252 ELSE 256
        IN /\ obs.scan.reads > 0 => obs.scan.first = sp + skip
           /\ obs.scan.reads <= budget /\ obs.scan.checks <= budget
           /\ obs.scan.address_of_pc # -1 =>
                  /\ obs.scan.address_of_pc = sp + skip + 4 * obs.scan.i
                  /\ obs.scan.address_of_pc < sp + skip + 4 * budget

C8_Witness ==
    /\ Scan32Tried /\ callee.trust # "Context"
    /\ obs.scan.stop = "exhausted" /\ obs.scan.reads = 252
    /\ obs.scan.first = AsU32(callee.raw.sp) + 16

\* C9: neither scan unwinder accepts a scanned word below 0x1000 as the
\* caller's instruction pointer, even when it lies inside a module and the
\* symbol provider finds it plausible: the word is skipped and the scan goes on
\* with the next word.
C9_LowWordSkipped ==
    /\ (ScanYielded /\ IsSome(frame)) =>
           /\ obs.scan.caller_pc >= 4096
           /\ get_instruction_pointer(Unwrap(frame)) >= 4096
    /\ pc = "scan" =>
           LET mem == Unwrap(stack_memory) IN
           \A i \in 0..255 :
               LET b32 == Scan32Body(i, AsU32(callee.raw.sp), mem, modules, syms)
                   b64 == Scan64Body(i, callee.raw.sp, mem, modules, syms)
               IN /\ (b32.caller_pc # -1 /\ b32.caller_pc < 4096) => b32.stop = "continue"
                  /\ (b64.caller_pc # -1 /\ b64.caller_pc < 4096) => b64.stop = "continue"
    /\ (Scan32Tried \/ Scan64Tried) =>
           LET width == IF Scan32Tried THEN POINTER_WIDTH32 ELSE POINTER_WIDTH64
               head == get_memory_at_address(Unwrap(stack_memory), obs.scan.first, width)
           IN (obs.scan.reads > 0 /\ IsSome(head) /\ Unwrap(head) < 4096) =>
                  (obs.scan.i >= 1 /\ (obs.scan.stop # "add_overflow" => obs.scan.reads >= 2))

C9_Witness ==
    /\ ScanYielded /\ obs.scan.i > 0
    /\ Unwrap(stack_memory).fill = RetLow /\ RetLow \in syms
    /\ IsSome(module_at_address(modules, RetLow))
    /\ get_memory_at_address(Unwrap(stack_memory), obs.scan.first, POINTER_WIDTH32) = Some(RetLow)

\* C10: a frame returned by a scan unwinder has a stack pointer equal to the
\* address of the accepted stack word plus the pointer width (4 for the 32-bit,
\* 8 for the 64-bit variant) and a pc register equal to the value of that word.
C10_ScannedFrame ==
    (ScanYielded /\ IsSome(frame)) =>
        LET width == IF Scan32Tried THEN POINTER_WIDTH32 ELSE POINTER_WIDTH64
            word == get_memory_at_address(Unwrap(stack_memory), obs.scan.address_of_pc, width)
        IN /\ Scan32Tried \/ Scan64Tried
           /\ width = (IF callee.raw.flags64 THEN 8 ELSE 4)
           /\ get_stack_pointer(Unwrap(frame)) = obs.scan.address_of_pc + width
           /\ IsSome(word)
           /\ get_instruction_pointer(Unwrap(frame)) =
                  (IF Scan32Tried THEN AsU32(Unwrap(word)) ELSE Unwrap(word))
           /\ RawRegister(Unwrap(frame).raw, PROGRAM_COUNTER) = get_instruction_pointer(Unwrap(frame))

C10_Witness ==
    /\ ScanYielded /\ Scan64Tried /\ obs.scan.i > 0 /\ pc = "emitted"
    /\ get_stack_pointer(Unwrap(result)) = obs.scan.address_of_pc + 8

\* C11: every frame emitted by get_caller_frame reports an instruction address
\* equal to the instruction pointer the unwinder computed minus 8; the
\* subtraction does not underflow, since that instruction pointer is at least
\* 4096.
C11_InstructionAdjusted ==
    pc = "emitted" =>
        /\ IsSome(frame) /\ IsSome(result)
        /\ get_instruction_pointer(Unwrap(frame)) >= 4096
        /\ Unwrap(result).instruction = get_instruction_pointer(Unwrap(frame)) - 8
        /\ Unwrap(result).instruction >= 4088
        /\ get_instruction_pointer(Unwrap(result)) = get_instruction_pointer(Unwrap(frame))

C11_Witness ==
    /\ pc = "emitted" /\ get_instruction_pointer(Unwrap(frame)) = 4096
    /\ Unwrap(result).instruction = 4088

\* the word of the stack image at sp + off, as the 32-bit scan reads it
StackWord32(off) ==
    get_memory_at_address(Unwrap(stack_memory), AsU32(callee.raw.sp) + off, POINTER_WIDTH32)
\* the stack word at sp + off is a code address the scan would accept
PlausibleAt32(off) ==
    /\ IsSome(StackWord32(off))
    /\ instruction_seems_valid(AsU32(Unwrap(StackWord32(off))), modules, syms)
\* the setting of C12: a 32-bit callee of trust Context with a known stack
\* pointer that fits the register, no CFI frame, and a plausible code address
\* in the stack word at sp + 16
C12_Given ==
    /\ Scan32Tried /\ callee.trust = "Context"
    /\ RegisterIsValid(STACK_POINTER, callee.valid)
    /\ callee.raw.sp = AsU32(callee.raw.sp)
    /\ callee.raw.sp + 20 <= NarrowMax
    /\ PlausibleAt32(16)
\* the outcome of C12: the Scan frame taken from the word at sp + 16
C12_Outcome ==
    /\ pc = "emitted"
    /\ Unwrap(result).trust = "Scan"
    /\ Unwrap(result).instruction = Unwrap(StackWord32(16)) - 8
    /\ get_stack_pointer(Unwrap(result)) = callee.raw.sp + 16 + 4

\* C12 as claimed: for a 32-bit callee of trust Context with stack pointer S,
\* no CFI frame, and a plausible code address A in a module at S + 16,
\* get_caller_frame returns a Scan frame with instruction A - 8 and stack
\* pointer S + 16 + 4.
C12_ScanAtOffset16 == (Returned /\ C12_Given) => C12_Outcome

\* C12 (amended): the same, provided the four words at S .. S + 12 are
\* readable and none of them is a code address the scan accepts.  The scan
\* then returns the Scan frame with pc A and sp S + 20, and get_caller_frame
\* emits it with instruction A - 8.
C12_ScanAtOffset16AfterFourWords ==
    (C12_Given /\ \A k \in 0..3 : IsSome(StackWord32(4 * k)) /\ ~PlausibleAt32(4 * k)) =>
        /\ ScanYielded /\ obs.scan.i = 4 /\ IsSome(frame)
        /\ Unwrap(frame).trust = "Scan"
        /\ get_instruction_pointer(Unwrap(frame)) = Unwrap(StackWord32(16))
        /\ get_stack_pointer(Unwrap(frame)) = callee.raw.sp + 16 + 4
        /\ pc \in {"validate", "emitted"}
        /\ Returned => C12_Outcome

C12_Witness ==
    /\ C12_Given /\ C12_Outcome /\ obs.scan.i = 4
    /\ Unwrap(StackWord32(16)) = RetOk /\ Unwrap(result).instruction = RetOk - 8

\* the CFI unwinder built its CfiStackWalker (lines 48-63) in this invocation
CfiWalkerBuilt == obs.cfi \in {"cfi_failed", "ok"}

\* C14 as claimed: the set of registers the CFI unwinder marks as forwarded
\* by default in the caller's validity mask, before CFI evaluation, contains
\* neither the stack pointer nor the instruction pointer, whatever the callee's
\* validity mask.
C14_SpPcNeverForwarded ==
    CfiWalkerBuilt =>
        {STACK_POINTER, PROGRAM_COUNTER} \cap callee_forwarded_regs(callee.valid) = {}

\* what the scan attempted in this invocation works with: the largest
\* pointer value, the pointer width, the stack pointer it starts from, the
\* bytes of argument spill area it skips and the number of words it may read
ScanTried == Scan32Tried \/ Scan64Tried
ScanMax == IF Scan32Tried THEN NarrowMax ELSE WideMax
ScanWidth == IF Scan32Tried THEN 4 ELSE 8
ScanSp == IF Scan32Tried THEN AsU32(callee.raw.sp) ELSE callee.raw.sp
ScanSkip == IF Scan32Tried /\ callee.trust # "Context" THEN 16 ELSE 0
ScanBudget == (1024 - ScanSkip) \div ScanWidth
ScanOverflowed == obs.scan.stop \in {"add_overflow", "sp_overflow"}

\* C15: in both scan unwinders the address arithmetic never wraps: when the
\* start address plus the argument spill offset, the start address plus the
\* word offset, or the candidate's address plus the pointer width exceeds the
\* largest pointer value, the scan returns nothing; every address it reads or
\* reports is the exact sum.
C15_NoWrap ==
    (ScanTried /\ RegisterIsValid(STACK_POINTER, callee.valid)) =>
        /\ ScanSp + ScanSkip > ScanMax =>
               (obs.scan.stop = "add_overflow" /\ obs.scan.reads = 0)
        /\ obs.scan.reads > 0 =>
               (obs.scan.first = ScanSp + ScanSkip /\ obs.scan.first <= ScanMax)
        /\ obs.scan.address_of_pc # -1 =>
               /\ obs.scan.address_of_pc = ScanSp + ScanSkip + ScanWidth * obs.scan.i
               /\ obs.scan.address_of_pc <= ScanMax
        /\ (obs.scan.stop = "add_overflow" /\ obs.scan.reads > 0) =>
               obs.scan.first + ScanWidth * obs.scan.i > ScanMax
        /\ obs.scan.stop = "sp_overflow" =>
               obs.scan.address_of_pc + ScanWidth > ScanMax
        /\ obs.scan.stop = "exhausted" =>
               ScanSp + ScanSkip + ScanWidth * (ScanBudget - 1) <= ScanMax
        /\ ScanOverflowed => (frame = None /\ result = None /\ pc = "done")
        /\ ScanYielded =>
               /\ IsSome(frame)
               /\ get_stack_pointer(Unwrap(frame)) = obs.scan.address_of_pc + ScanWidth
               /\ get_stack_pointer(Unwrap(frame)) <= ScanMax

C15_Witness ==
    /\ Scan32Tried /\ obs.scan.stop = "sp_overflow" /\ pc = "done" /\ frame = None
    /\ obs.scan.caller_pc = RetOk /\ obs.scan.address_of_pc + 4 = NarrowMod

\* C16: a frame returned by a scan unwinder has trust Scan and a validity
\* mask that is exactly the set {pc, sp}; no other register of the callee is
\* carried into, or marked valid in, the scanned caller context.
C16_ScanValidity ==
    (ScanYielded /\ IsSome(frame)) =>
        LET f == Unwrap(frame) IN
        /\ f.trust = "Scan"
        /\ f.valid.kind = "Some" /\ f.valid.which = {"pc", "sp"}
        /\ \A k \in 1..Len(CALLEE_SAVED_REGS) :
               CALLEE_SAVED_REGS[k] # "sp" => ~RegisterIsValid(CALLEE_SAVED_REGS[k], f.valid)
        /\ RawRegister(f.raw, "fp") = 0 /\ ~f.raw.flags64
        /\ pc = "emitted" =>
               /\ Unwrap(result).trust = "Scan"
               /\ Unwrap(result).valid = f.valid /\ Unwrap(result).raw = f.raw

C16_Witness ==
    /\ ScanYielded /\ pc = "emitted" /\ callee.valid = ValidAll
    /\ callee.raw.flags64 /\ RawRegister(callee.raw, "fp") # 0
    /\ RawRegister(Unwrap(result).raw, "fp") = 0
    /\ Unwrap(result).valid = ValidSome({PROGRAM_COUNTER, STACK_POINTER})

\* the word of the stack image the scan attempted in this invocation finds
\* at index j of its range
ScannedWord(j) ==
    get_memory_at_address(Unwrap(stack_memory), obs.scan.first + ScanWidth * j, ScanWidth)
\* a word value is at least 0x1000 and plausible to the symbol provider
Acceptable(word) ==
    word >= 4096 /\ instruction_seems_valid_by_symbols(word, modules, syms)

\* C17: when a scan unwinder returns a frame, the accepted word is the
\* lowest-addressed word of the scanned range that is at least 0x1000 and
\* plausible to the symbol provider: every scanned word below it is under
\* 0x1000 or implausible, and no word above it is read.
C17_FirstAcceptable ==
    (ScanYielded /\ IsSome(frame)) =>
        /\ ScanTried
        /\ obs.scan.address_of_pc = obs.scan.first + ScanWidth * obs.scan.i
        /\ ScannedWord(obs.scan.i) = Some(obs.scan.caller_pc)
        /\ Acceptable(obs.scan.caller_pc)
        /\ get_instruction_pointer(Unwrap(frame)) = obs.scan.caller_pc
        /\ \A j \in 0..(obs.scan.i - 1) :
               IsSome(ScannedWord(j)) /\ ~Acceptable(Unwrap(ScannedWord(j)))
        /\ obs.scan.reads = obs.scan.i + 1
        /\ obs.scan.checks = obs.scan.i + 1

C17_Witness ==
    /\ ScanYielded /\ Scan64Tried /\ obs.scan.i = 1
    /\ ScannedWord(0) = Some(RetBad) /\ ScannedWord(1) = Some(RetOk)
    /\ IsSome(ScannedWord(2)) /\ Acceptable(Unwrap(ScannedWord(2)))
    /\ obs.scan.reads = 2

\* C18: the 64-bit scan unwinder reads its first word at the callee's stack
\* pointer whatever the callee's trust (no argument spill skip) and examines
\* at most 128 words of 8 bytes; neither scan variant reads a word at the
\* address sp + 1024 or beyond.
C18_Scan64Range ==
    /\ Scan64Tried =>
           /\ obs.scan.reads > 0 => obs.scan.first = callee.raw.sp
           /\ obs.scan.reads <= 128 /\ obs.scan.checks <= 128 /\ obs.scan.i <= 128
           /\ obs.scan.address_of_pc # -1 =>
                  obs.scan.address_of_pc = callee.raw.sp + 8 * obs.scan.i
    /\ ScanTried =>
           /\ obs.scan.reads > 0 => obs.scan.first >= ScanSp
           /\ obs.scan.address_of_pc # -1 =>
                  /\ obs.scan.address_of_pc >= ScanSp
                  /\ obs.scan.address_of_pc + ScanWidth <= ScanSp + 1024
           /\ obs.scan.first + ScanWidth * obs.scan.reads <= ScanSp + 1024

C18_Witness ==
    /\ Scan64Tried /\ callee.trust = "CallFrameInfo"
    /\ obs.scan.stop = "exhausted" /\ obs.scan.reads = 128
    /\ obs.scan.first = callee.raw.sp
    /\ IsSome(get_memory_at_address(Unwrap(stack_memory), callee.raw.sp + 1024, 8))

\* the scan reaches index j of its range: the address does not overflow and
\* every word before it is readable and not accepted
ScanReaches(j) ==
    /\ obs.scan.first + ScanWidth * j <= ScanMax
    /\ \A k \in 0..(j - 1) : IsSome(ScannedWord(k)) /\ ~Acceptable(Unwrap(ScannedWord(k)))

\* C19: when a scan unwinder reaches, before accepting any candidate, a word
\* address that cannot be read from the stack memory image, the whole scan
\* returns nothing at that point: the word is not skipped and no later word of
\* the budget is examined.
C19_UnreadableStops ==
    /\ (ScanTried /\ obs.scan.reads > 0) =>
           \A j \in 0..(ScanBudget - 1) :
               (ScannedWord(j) = None /\ ScanReaches(j)) =>
                   /\ obs.scan.stop = "unreadable" /\ obs.scan.i = j
                   /\ frame = None /\ result = None /\ pc = "done"
    /\ (ScanTried /\ obs.scan.stop = "unreadable") =>
           /\ ScannedWord(obs.scan.i) = None /\ ScanReaches(obs.scan.i)
           /\ obs.scan.address_of_pc = obs.scan.first + ScanWidth * obs.scan.i
           /\ obs.scan.reads = obs.scan.i + 1 /\ obs.scan.checks = obs.scan.i
           /\ frame = None /\ result = None /\ pc = "done"

C19_Witness ==
    /\ Scan32Tried /\ obs.scan.stop = "unreadable" /\ obs.scan.i = 0 /\ pc = "done"
    /\ obs.scan.reads = 1 /\ obs.scan.checks = 0
    /\ IsSome(ScannedWord(1)) /\ Acceptable(Unwrap(ScannedWord(1)))

\* C20 as claimed: whenever a scan unwinder returns a frame, the frame passes
\* both checks of the validator (instruction pointer at least 4096, stack
\* pointer strictly above the callee's raw 64-bit stack pointer), so that
\* get_caller_frame emits it, whatever the raw callee registers hold.
C20_ScanFrameEmitted ==
    (Returned /\ ScanYielded /\ IsSome(frame)) =>
        /\ get_instruction_pointer(Unwrap(frame)) >= 4096
        /\ get_stack_pointer(Unwrap(frame)) > RawRegister(callee.raw, STACK_POINTER)
        /\ pc = "emitted" /\ IsSome(result)

====
